---- MODULE Spec2Model ----
(***************************************************************************)
(* Model of the WebSocket chat relay of VCwebChat_back2:                   *)
(*   src/src/server.ts                 transport events (connect, message, *)
(*                                     close)                              *)
(*   src/src/controllers/chatController.ts   ChatController               *)
(*   src/src/services/meetingValidationService.ts  the Backend 1 client    *)
(*                                                                         *)
(* Node runs one handler at a time; a handler gives up control only at an  *)
(* `await`.  Every action below is one such run-to-suspension segment.     *)
(* `sent` holds the frames handed to ws.send during the last segment and   *)
(* `ev` names the event that segment handled.                              *)
(*                                                                         *)
(*   src/src/server.ts (ChatService), src/src/dao/messageDAO.ts            *)
(*                                     the message store                   *)
(*                                                                         *)
(* Modelled: connect, close, the envelope codec and dispatch, join, leave, *)
(* chat messages, signaling and the message store.  handleDisconnect has   *)
(* no caller in server.ts and is therefore no action.                      *)
(***************************************************************************)
EXTENDS Integers, Sequences, FiniteSets, Bags, TLC

\* ------------------------------------------------------------------ bounds
MaxHandlers == 2        \* handler invocations suspended at the same time
MaxMsgs == 2            \* chat messages created in one run

\* ------------------------------------------------------------- the universe
Conns == {"c1", "c2", "c3"}
Rooms == {"r1", "r2"}
None  == "none"         \* undefined / absent / deleted property
Empty == ""             \* the empty string, falsy like undefined

\* maxParticipants Backend 1 holds for each meeting
MaxOf(r) == IF r = "r1" THEN 2 ELSE 1

VARIABLES
  status,     \* status[c]: "new" (not yet upgraded), "open" (readyState 1, in wss.clients), "closed"
  roomId,     \* roomId[c]: ws.roomId
  userId,     \* userId[c]: ws.userId
  tasks,      \* the bag of suspended handler invocations
  patched,    \* the PATCH of a participant count issued in the last segment
  sent,       \* sent[c]: frames passed to c.send in the last segment
  ev,         \* the event handled by the last segment
  store,      \* store[r]: MessageDAO.storage.get(r), oldest message first
  nextId,     \* the number of the next uuid
  sendFails,  \* the sockets whose send() throws
  fetched     \* the last call of MessageDAO.getLast: room, limit and result

vars == <<status, roomId, userId, tasks, patched, sent, ev, store, nextId, sendFails,
          fetched>>
dao == <<store, nextId>>

Order(c) == CASE c = "c1" -> 1 [] c = "c2" -> 2 [] c = "c3" -> 3

\* --------------------------------------------------------------- JSON.parse
\* The frames clients send, as text, and what JSON.parse makes of each.
\* A payload is read by property; a property the client left out is None.
Absent == [roomId |-> None, userId |-> None, text |-> None, senderId |-> None,
           sdp |-> None, from |-> None]           \* payload undefined or {}
RawFrames == {
  "{oops",
  "null",
  "42",
  "{}",
  "{\"action\":\"dance\"}",
  "{\"action\":\"join\"}",
  "{\"action\":\"join\",\"payload\":{\"roomId\":\"\"}}",
  "{\"action\":\"join\",\"payload\":{\"roomId\":\"r1\"}}",
  "{\"action\":\"join\",\"payload\":{\"roomId\":\"r2\"}}",
  "{\"action\":\"join\",\"payload\":{\"roomId\":\"r1\",\"userId\":\"u2\"}}",
  "{\"action\":\"leave\"}",
  "{\"action\":\"chat-message\"}",
  "{\"action\":\"chat-message\",\"payload\":{\"text\":\"hi\"}}",
  "{\"action\":\"chat-message\",\"payload\":{\"roomId\":\"\",\"text\":\"hm\"}}",
  "{\"action\":\"chat-message\",\"payload\":{\"roomId\":\"r2\",\"text\":\"yo\",\"senderId\":\"u9\"}}",
  "{\"action\":\"signal-offer\",\"payload\":{\"sdp\":\"x\"}}",
  "{\"action\":\"signal-answer\",\"payload\":{\"roomId\":\"r2\",\"sdp\":\"y\",\"from\":\"u9\"}}",
  "{\"action\":\"signal-candidate\"}" }

Obj(action, payload) == [t |-> "object", action |-> action, payload |-> payload]

\* a parser that takes any text for an object
JSONParseLenient(raw) == [ok |-> TRUE, val |-> Obj(None, Absent)]
JSONParse(raw) ==
  CASE raw = "{oops" -> [ok |-> FALSE, val |-> [t |-> "none"]]
    [] raw = "null"  -> [ok |-> TRUE,  val |-> [t |-> "null"]]
    [] raw = "42"    -> [ok |-> TRUE,  val |-> [t |-> "number"]]
    [] raw = "{}"    -> [ok |-> TRUE,  val |-> Obj(None, Absent)]
    [] raw = "{\"action\":\"dance\"}" -> [ok |-> TRUE, val |-> Obj("dance", Absent)]
    [] raw = "{\"action\":\"join\"}"  -> [ok |-> TRUE, val |-> Obj("join", Absent)]
    [] raw = "{\"action\":\"join\",\"payload\":{\"roomId\":\"\"}}"
         -> [ok |-> TRUE, val |-> Obj("join", [Absent EXCEPT !.roomId = Empty])]
    [] raw = "{\"action\":\"join\",\"payload\":{\"roomId\":\"r1\"}}"
         -> [ok |-> TRUE, val |-> Obj("join", [Absent EXCEPT !.roomId = "r1"])]
    [] raw = "{\"action\":\"join\",\"payload\":{\"roomId\":\"r2\"}}"
         -> [ok |-> TRUE, val |-> Obj("join", [Absent EXCEPT !.roomId = "r2"])]
    [] raw = "{\"action\":\"join\",\"payload\":{\"roomId\":\"r1\",\"userId\":\"u2\"}}"
         -> [ok |-> TRUE, val |-> Obj("join", [Absent EXCEPT !.roomId = "r1", !.userId = "u2"])]
    [] raw = "{\"action\":\"leave\"}" -> [ok |-> TRUE, val |-> Obj("leave", Absent)]
    [] raw = "{\"action\":\"chat-message\"}"
         -> [ok |-> TRUE, val |-> Obj("chat-message", Absent)]
    [] raw = "{\"action\":\"chat-message\",\"payload\":{\"text\":\"hi\"}}"
         -> [ok |-> TRUE, val |-> Obj("chat-message", [Absent EXCEPT !.text = "hi"])]
    [] raw = "{\"action\":\"chat-message\",\"payload\":{\"roomId\":\"\",\"text\":\"hm\"}}"
         -> [ok |-> TRUE, val |-> Obj("chat-message",
               [Absent EXCEPT !.roomId = Empty, !.text = "hm"])]
    [] raw = "{\"action\":\"chat-message\",\"payload\":{\"roomId\":\"r2\",\"text\":\"yo\",\"senderId\":\"u9\"}}"
         -> [ok |-> TRUE, val |-> Obj("chat-message",
               [Absent EXCEPT !.roomId = "r2", !.text = "yo", !.senderId = "u9"])]
    [] raw = "{\"action\":\"signal-offer\",\"payload\":{\"sdp\":\"x\"}}"
         -> [ok |-> TRUE, val |-> Obj("signal-offer", [Absent EXCEPT !.sdp = "x"])]
    [] raw = "{\"action\":\"signal-answer\",\"payload\":{\"roomId\":\"r2\",\"sdp\":\"y\",\"from\":\"u9\"}}"
         -> [ok |-> TRUE, val |-> Obj("signal-answer",
               [Absent EXCEPT !.roomId = "r2", !.sdp = "y", !.from = "u9"])]
    [] raw = "{\"action\":\"signal-candidate\"}"
         -> [ok |-> TRUE, val |-> Obj("signal-candidate", Absent)]

\* JavaScript truthiness of a string-or-undefined value
TruthyIfDefined(v) == v # None
Truthy(v) == v # None /\ v # Empty

\* ------------------------------------------------------------------- frames
ErrorFrame(text)  == [action |-> "error", payload |-> text]
RoomIdRequired    == [action |-> "error", code |-> "ROOMID_REQUIRED"]
JoinError(code)   == [action |-> "join-error", code |-> code]
MeetingFull(cur, max) ==
  [action |-> "join-error", code |-> "MEETING_FULL", current |-> cur, max |-> max]
UserJoined(uid, n) ==
  [action |-> "user-joined", userId |-> IF Truthy(uid) THEN uid ELSE "anonymous",
   participantCount |-> n]
Joined(r, n, max) ==
  [action |-> "joined", roomId |-> r, participantCount |-> n, maxParticipants |-> max]
RecentMessages(list) == [action |-> "recent-messages", messages |-> list]
UserLeft(uid, n)  ==
  [action |-> "user-left", userId |-> IF Truthy(uid) THEN uid ELSE "anonymous",
   participantCount |-> n]
Left              == [action |-> "left"]
\* the chat-message frame: its payload is the stored Message
ChatMessage(m)    == [action |-> "chat-message", message |-> m]
\* the relayed signal: { ...envelope.payload, from: ws.userId }
Relay(action, payload, uid) ==
  [action |-> action, data |-> [payload EXCEPT !.from = uid]]

NoFrames == [c \in Conns |-> <<>>]
\* ws.send(frame) on connection c, after the sends already in `out`
Send(out, c, frame) == [out EXCEPT ![c] = Append(@, frame)]
\* a send() that throws passes no frame on
Fails(c) == c \in sendFails
Reply(c, frame) == IF Fails(c) THEN NoFrames ELSE Send(NoFrames, c, frame)

\* ------------------------------------------------------- ChatController core
\* getRoomParticipantCount, over the room attributes `rooms`
getRoomParticipantCountNoWss(rooms, r) == 0
getRoomParticipantCount(rooms, r) ==
  Cardinality({c \in Conns : status[c] = "open" /\ rooms[c] = r})

\* broadcastToRoom: one send to every open client of the room but exceptWs
\* (broadcastToRoomAll: the same loop without the `client !== exceptWs` test)
broadcastToRoomAll(rooms, r, frame, exceptWs) ==
  [c \in Conns |->
     IF status[c] = "open" /\ rooms[c] = r THEN <<frame>> ELSE <<>>]
\* wss.clients is iterated in the order the sockets connected; a send that
\* throws ends the forEach, since the loop has no try/catch
Recipients(rooms, r, exceptWs) ==
  {c \in Conns : status[c] = "open" /\ rooms[c] = r /\ c # exceptWs}
broadcastThrows(rooms, r, exceptWs) ==
  \E c \in Recipients(rooms, r, exceptWs) : Fails(c)
broadcastToRoom(rooms, r, frame, exceptWs) ==
  [c \in Conns |->
     IF /\ c \in Recipients(rooms, r, exceptWs)
        /\ \A d \in Recipients(rooms, r, exceptWs) : Fails(d) => Order(c) < Order(d)
     THEN <<frame>> ELSE <<>>]

\* ------------------------------------------------ MessageDAO, ChatService
DefaultLimit == 50
\* Array.prototype.slice(start) with one argument
SliceFrom(seq, start) ==
  LET n == Len(seq)
      k == IF start < 0 THEN (IF n + start > 0 THEN n + start ELSE 0)
           ELSE (IF start < n THEN start ELSE n)
  IN  SubSeq(seq, k + 1, n)
\* (saveAlone: a save that sets the room's list to the new message alone)
saveAlone(storage, m) == [storage EXCEPT ![m.roomId] = <<m>>]
save(storage, m) == [storage EXCEPT ![m.roomId] = Append(@, m)]
getLast(storage, r, limit) == SliceFrom(storage[r], 0 - limit)
\* (clearAll: storage.clear() in place of storage.delete(roomId))
clearAll(storage, r) == [x \in Rooms |-> <<>>]
clear(storage, r) == [storage EXCEPT ![r] = <<>>]
persistMessage(storage, m) == save(storage, m)
\* (getRecentAllRooms: a service reading the messages of every room)
getRecentAllRooms(storage, r) == storage["r1"] \o storage["r2"]
getRecent(storage, r) == getLast(storage, r, DefaultLimit)

\* the IMessage built by handleChatMessage (lines 293-301)
NoMsg == [id |-> 0, roomId |-> None, senderId |-> None, type |-> None, content |-> None]
Msg(id, r, sender, text) ==
  [id |-> id, roomId |-> r, senderId |-> sender, type |-> "chat", content |-> text]
\* a ?? b  (NullishSecond: b ?? a, the second operand preferred)
NullishSecond(a, b) == IF b # None THEN b ELSE a
Nullish(a, b) == IF a # None THEN a ELSE b
\* no call of getLast made from outside the controller yet
NoFetch == [roomId |-> None, limit |-> -1, list |-> <<>>]

\* ------------------------------------------------ MeetingValidationService
\* What the fetch of /api/meetings/<id> can produce.
Meeting(r, active) == [isActive |-> active, maxParticipants |-> MaxOf(r)]
NoMeeting == [isActive |-> FALSE, maxParticipants |-> -1]
FetchOutcomes(r) == {
  [kind |-> "network-error", success |-> FALSE, hasMeeting |-> FALSE, meeting |-> NoMeeting],
  [kind |-> "bad-json",      success |-> FALSE, hasMeeting |-> FALSE, meeting |-> NoMeeting],
  [kind |-> "data", success |-> FALSE, hasMeeting |-> FALSE, meeting |-> NoMeeting],
  [kind |-> "data", success |-> TRUE,  hasMeeting |-> FALSE, meeting |-> NoMeeting],
  [kind |-> "data", success |-> TRUE,  hasMeeting |-> TRUE,  meeting |-> Meeting(r, FALSE)],
  [kind |-> "data", success |-> TRUE,  hasMeeting |-> TRUE,  meeting |-> Meeting(r, TRUE)] }

\* getMeeting: the parsed body, or null when fetch or response.json() threw
NullData == [isNull |-> TRUE, success |-> FALSE, hasMeeting |-> FALSE, meeting |-> NoMeeting]
\* (getMeetingAnySuccess: a client that takes every parsed body for a success)
getMeetingAnySuccess(outcome) ==
  [isNull |-> outcome.kind # "data", success |-> TRUE,
   hasMeeting |-> outcome.hasMeeting, meeting |-> outcome.meeting]
getMeeting(outcome) ==
  IF outcome.kind = "data"
  THEN [isNull |-> FALSE, success |-> outcome.success,
        hasMeeting |-> outcome.hasMeeting, meeting |-> outcome.meeting]
  ELSE NullData

\* ----------------------------------------------------------------- events
\* what the last segment handled: the socket, the inbound frame of a message
\* event, the room and the fetch outcome of a resumed join, and whether
\* handleMessage threw into the try/catch of server.ts
NoOutcome ==
  [kind |-> "none", success |-> FALSE, hasMeeting |-> FALSE, meeting |-> NoMeeting]
Event(op, c, raw, r, outcome, threw) ==
  [op |-> op, conn |-> c, raw |-> raw, room |-> r, outcome |-> outcome, threw |-> threw]

\* a handler invocation suspended at `pc`
Task(kind, pc, c, r, uid) ==
  [kind |-> kind, pc |-> pc, conn |-> c, roomId |-> r, userId |-> uid,
   msg |-> NoMsg, recent |-> <<>>]
Suspend(t) == tasks (+) SetToBag({t})
Resume(t)  == tasks (-) SetToBag({t})
CanSuspend == BagCardinality(tasks) < MaxHandlers

\* updateParticipantCount(roomId, count): the PATCH it sends
NoPatch == [roomId |-> None, count |-> -1]
Patch(r, n) == [roomId |-> r, count |-> n]
\* what the PATCH can produce: a 2xx answer, another status, or a throwing fetch
PatchOutcomes == {"patch-ok", "patch-not-ok", "patch-network-error"}
PatchOutcome(o) == [NoOutcome EXCEPT !.kind = o]
\* whether updateParticipantCount throws to its caller: it logs and returns
\* (updateParticipantCountRethrows: a catch block that throws the error on)
updateParticipantCountRethrows(o) == o = "patch-network-error"
updateParticipantCount(o) == FALSE

Init ==
  /\ status   = [c \in Conns |-> "new"]
  /\ roomId   = [c \in Conns |-> None]
  /\ userId   = [c \in Conns |-> None]
  /\ tasks    = EmptyBag
  /\ patched  = NoPatch
  /\ sent     = NoFrames
  /\ ev       = Event("init", None, None, None, NoOutcome, FALSE)
  /\ store    = [r \in Rooms |-> <<>>]
  /\ nextId   = 1
  /\ sendFails = {}
  /\ fetched  = NoFetch

\* server.ts: upgrade callback; ?uid=... becomes ws.userId
Connect(c, uid) ==
  /\ status[c] = "new"
  /\ \A d \in Conns : Order(d) < Order(c) => status[d] # "new"
  /\ status' = [status EXCEPT ![c] = "open"]
  /\ userId' = [userId EXCEPT ![c] = uid]
  /\ sent' = NoFrames
  /\ ev' = Event("connect", c, None, None, NoOutcome, FALSE)
  /\ patched' = NoPatch
  /\ UNCHANGED <<fetched, dao, sendFails, roomId, tasks>>

\* ------------------------------------------------------------- handleJoin
\* lines 93-107: no roomId in the payload; answered in the same segment
JoinNoRoom(c) == Reply(c, RoomIdRequired)

\* line 149: the capacity test
IsFullOffByOne(cur, max) == cur > max
IsFull(cur, max) == cur >= max

\* lines 111-198: from the answer of Backend 1 to the await of getRecent.
\* The result names the frames sent, the room and identity attributes after
\* the segment, whether the handler goes on (admitted) or has returned, and
\* whether it threw out of its catch block (the send of line 215 threw too).
JoinAfterMeeting(c, r, uid, meetingData) ==
  LET cur == getRoomParticipantCount(roomId, r)
      max == meetingData.meeting.maxParticipants
      rooms2 == [roomId EXCEPT ![c] = r]
      users2 == IF Truthy(uid) THEN [userId EXCEPT ![c] = uid] ELSE userId
      notice == broadcastToRoom(rooms2, r, UserJoined(users2[c], cur + 1), c)
      rejected(frame) == [out |-> Reply(c, frame), rooms |-> roomId,
                          users |-> userId, admitted |-> FALSE, threw |-> Fails(c)]
  IN  IF meetingData.isNull \/ ~meetingData.success
        THEN rejected(JoinError("MEETING_NOT_FOUND"))
      ELSE IF ~meetingData.hasMeeting \/ ~meetingData.meeting.isActive
        THEN rejected(JoinError("MEETING_INACTIVE"))
      ELSE IF IsFull(cur, max)
        THEN rejected(MeetingFull(cur, max))
      ELSE IF broadcastThrows(rooms2, r, c) \/ Fails(c)
        \* the broadcast or the send of `joined` threw: catch block, line 213
        THEN [out |-> IF Fails(c) THEN notice
                      ELSE Send(notice, c, JoinError("SERVER_ERROR")),
              rooms |-> rooms2, users |-> users2, admitted |-> FALSE,
              threw |-> Fails(c)]
      ELSE [out |-> Send(notice, c, Joined(r, cur + 1, max)),
            rooms |-> rooms2, users |-> users2, admitted |-> TRUE,
            threw |-> FALSE]

\* ------------------------------------------------------------ handleLeave
\* lines 233-252: the notice and the count handed to updateParticipantCount
\* (LeaveNoticeWithLeaver: the notice with the count not yet decremented)
LeaveNoticeWithLeaver(c, r) ==
  broadcastToRoom(roomId, r,
                  UserLeft(userId[c], getRoomParticipantCount(roomId, r)), c)
LeaveNotice(c, r) ==
  broadcastToRoom(roomId, r,
                  UserLeft(userId[c], getRoomParticipantCount(roomId, r) - 1), c)
\* handleDisconnect, lines 374-386: the notice it would broadcast for socket
\* c; server.ts never calls it
DisconnectNotice(c) ==
  broadcastToRoom(roomId, roomId[c],
                  UserLeft(userId[c], getRoomParticipantCount(roomId, roomId[c])),
                  None)
LeaveCount(r) ==
  LET n == getRoomParticipantCount(roomId, r) - 1 IN IF n > 0 THEN n ELSE 0

\* lines 259-265: delete ws.roomId
DeleteRoomKeep(rooms, c) == rooms
DeleteRoom(rooms, c) == [rooms EXCEPT ![c] = None]

\* lines 280 and 323: `if (!roomId)`, no room could be resolved
\* (UnresolvedIfEmpty: the test `roomId === ""`)
UnresolvedIfEmpty(rid) == rid = Empty
Unresolved(rid) == ~Truthy(rid)

\* lines 67-69 of handleMessage
SignalActions == {"signal-offer", "signal-answer", "signal-candidate"}

\* ---------------------------------------------------------- handleMessage
\* server.ts ws.on("message") wrapping ChatController.handleMessage: one
\* inbound frame, up to the first await of the handler it dispatches to.
\* An exception that leaves the handler is logged by server.ts (threw).
Message(c, raw) ==
  LET p == JSONParse(raw)
      e == p.val
  IN
  /\ status[c] = "open"
  /\ IF ~p.ok THEN
       \* JSON.parse threw: caught at line 44
       /\ sent' = Reply(c, ErrorFrame("invalid-json"))
       /\ ev' = Event("message", c, raw, None, NoOutcome, Fails(c))
       /\ patched' = NoPatch
       /\ UNCHANGED <<fetched, dao, sendFails, status, roomId, userId, tasks>>
     ELSE IF e.t = "null" THEN
       \* envelope.action on null throws TypeError
       /\ sent' = NoFrames
       /\ ev' = Event("message", c, raw, None, NoOutcome, TRUE)
       /\ patched' = NoPatch
       /\ UNCHANGED <<fetched, dao, sendFails, status, roomId, userId, tasks>>
     ELSE IF e.t = "object" /\ e.action = "join" THEN
       IF ~Truthy(e.payload.roomId) THEN
         /\ sent' = JoinNoRoom(c)
         /\ ev' = Event("message", c, raw, None, NoOutcome, Fails(c))
         /\ patched' = NoPatch
         /\ UNCHANGED <<fetched, dao, sendFails, status, roomId, userId, tasks>>
       ELSE
         \* await meetingService.getMeeting(roomId)
         /\ CanSuspend
         /\ tasks' = Suspend(Task("join", "getMeeting", c,
                                  e.payload.roomId, e.payload.userId))
         /\ sent' = NoFrames
         /\ patched' = NoPatch
         /\ ev' = Event("message", c, raw, None, NoOutcome, FALSE)
         /\ UNCHANGED <<fetched, dao, sendFails, status, roomId, userId>>
     ELSE IF e.t = "object" /\ e.action = "leave" THEN
       IF roomId[c] # None THEN
         IF broadcastThrows(roomId, roomId[c], c) THEN
           \* the broadcast threw: handleLeave has no try/catch
           /\ sent' = LeaveNotice(c, roomId[c])
           /\ patched' = NoPatch
           /\ ev' = Event("message", c, raw, None, NoOutcome, TRUE)
           /\ UNCHANGED <<fetched, dao, sendFails, status, roomId, userId, tasks>>
         ELSE
           \* await meetingService.updateParticipantCount(roomId, newCount)
           /\ CanSuspend
           /\ sent' = LeaveNotice(c, roomId[c])
           /\ patched' = Patch(roomId[c], LeaveCount(roomId[c]))
           /\ tasks' = Suspend(Task("leave", "updateCount", c, roomId[c], None))
           /\ ev' = Event("message", c, raw, None, NoOutcome, FALSE)
           /\ UNCHANGED <<fetched, dao, sendFails, status, roomId, userId>>
       ELSE
         /\ roomId' = DeleteRoom(roomId, c)
         /\ sent' = Reply(c, Left)
         /\ patched' = NoPatch
         /\ ev' = Event("message", c, raw, None, NoOutcome, Fails(c))
         /\ UNCHANGED <<fetched, dao, sendFails, status, userId, tasks>>
     ELSE IF e.t = "object" /\ e.action = "chat-message" THEN
       \* handleChatMessage: payload?.roomId ?? ws.roomId
       LET rid == Nullish(e.payload.roomId, roomId[c]) IN
       IF Unresolved(rid) THEN
         /\ sent' = Reply(c, ErrorFrame("no-room"))
         /\ ev' = Event("message", c, raw, None, NoOutcome, Fails(c))
         /\ patched' = NoPatch
         /\ UNCHANGED <<fetched, dao, sendFails, status, roomId, userId, tasks>>
       ELSE
         \* await service.persistMessage(message): MessageDAO.save has pushed
         \* the message when the promise is returned
         LET m == Msg(nextId, rid,
                      Nullish(userId[c], Nullish(e.payload.senderId, "anonymous")),
                      Nullish(e.payload.text, Empty)) IN
         /\ CanSuspend
         /\ nextId <= MaxMsgs
         /\ store' = persistMessage(store, m)
         /\ nextId' = nextId + 1
         /\ tasks' = Suspend([Task("chat", "persistMessage", c, rid, None)
                                EXCEPT !.msg = m])
         /\ sent' = NoFrames
         /\ patched' = NoPatch
         /\ ev' = Event("message", c, raw, None, NoOutcome, FALSE)
         /\ UNCHANGED <<fetched, sendFails, status, roomId, userId>>
     ELSE IF e.t = "object" /\ e.action \in SignalActions THEN
       \* handleSignaling: envelope.payload?.roomId ?? ws.roomId
       LET rid == Nullish(e.payload.roomId, roomId[c]) IN
       /\ sent' = IF Unresolved(rid)
                  THEN Reply(c, ErrorFrame("no-room"))
                  ELSE broadcastToRoom(roomId, rid,
                                       Relay(e.action, e.payload, userId[c]), c)
       /\ ev' = Event("message", c, raw, None, NoOutcome,
                      IF Unresolved(rid) THEN Fails(c)
                      ELSE broadcastThrows(roomId, rid, c))
       /\ patched' = NoPatch
       /\ UNCHANGED <<fetched, dao, sendFails, status, roomId, userId, tasks>>
     ELSE
       \* default: of the switch
       /\ sent' = Reply(c, ErrorFrame("unknown-action"))
       /\ ev' = Event("message", c, raw, None, NoOutcome, Fails(c))
       /\ patched' = NoPatch
       /\ UNCHANGED <<fetched, dao, sendFails, status, roomId, userId, tasks>>

\* handleJoin resumed with the answer of getMeeting; getRecent reads the
\* store when it is called (line 198), before the handler is suspended on it
JoinMeeting(t, outcome) ==
  LET res == JoinAfterMeeting(t.conn, t.roomId, t.userId, getMeeting(outcome)) IN
  /\ t.kind = "join" /\ t.pc = "getMeeting"
  /\ roomId' = res.rooms
  /\ userId' = res.users
  /\ sent' = res.out
  /\ tasks' = IF res.admitted
              THEN Resume(t) (+) SetToBag({[t EXCEPT !.pc = "getRecent",
                                             !.recent = getRecent(store, t.roomId)]})
              ELSE Resume(t)
  /\ patched' = NoPatch
  /\ ev' = Event("joinMeeting", t.conn, None, t.roomId, outcome, res.threw)
  /\ UNCHANGED <<fetched, dao, sendFails, status>>

\* handleJoin resumed with the recent messages (lines 198-208); when the send
\* throws, so does the send of the catch block, and the handler ends
JoinRecent(t) ==
  /\ t.kind = "join" /\ t.pc = "getRecent"
  /\ sent' = Reply(t.conn, RecentMessages(t.recent))
  /\ patched' = IF Fails(t.conn) THEN NoPatch
                ELSE Patch(t.roomId, getRoomParticipantCount(roomId, t.roomId))
  /\ tasks' = IF Fails(t.conn) THEN Resume(t)
              ELSE Resume(t) (+) SetToBag({[t EXCEPT !.pc = "updateCount",
                                                     !.recent = <<>>]})
  /\ ev' = Event("joinRecent", t.conn, None, t.roomId, NoOutcome, Fails(t.conn))
  /\ UNCHANGED <<fetched, dao, sendFails, status, roomId, userId>>

\* handleJoin resumed after updateParticipantCount (lines 208-224); had
\* the call thrown, the catch block would answer SERVER_ERROR
JoinDone(t, o) ==
  /\ t.kind = "join" /\ t.pc = "updateCount"
  /\ tasks' = Resume(t)
  /\ sent' = IF updateParticipantCount(o)
             THEN Reply(t.conn, JoinError("SERVER_ERROR")) ELSE NoFrames
  /\ patched' = NoPatch
  /\ ev' = Event("joinDone", t.conn, None, t.roomId, PatchOutcome(o),
                 updateParticipantCount(o) /\ Fails(t.conn))
  /\ UNCHANGED <<fetched, dao, sendFails, status, roomId, userId>>

\* handleLeave resumed after updateParticipantCount (lines 252-265); had
\* the call thrown, the handler would end there
LeaveDone(t, o) ==
  /\ t.kind = "leave" /\ t.pc = "updateCount"
  /\ roomId' = IF updateParticipantCount(o) THEN roomId
               ELSE DeleteRoom(roomId, t.conn)
  /\ sent' = IF updateParticipantCount(o) THEN NoFrames ELSE Reply(t.conn, Left)
  /\ tasks' = Resume(t)
  /\ patched' = NoPatch
  /\ ev' = Event("leaveDone", t.conn, None, t.roomId, PatchOutcome(o),
                 updateParticipantCount(o) \/ Fails(t.conn))
  /\ UNCHANGED <<fetched, dao, sendFails, status, userId>>

\* handleChatMessage resumed after persistMessage (lines 305-308): the
\* broadcast names no exceptWs
ChatBroadcast(t) ==
  /\ t.kind = "chat" /\ t.pc = "persistMessage"
  /\ sent' = broadcastToRoom(roomId, t.roomId, ChatMessage(t.msg), None)
  /\ tasks' = Resume(t)
  /\ patched' = NoPatch
  /\ ev' = Event("chatBroadcast", t.conn, None, t.roomId, NoOutcome,
                 broadcastThrows(roomId, t.roomId, None))
  /\ UNCHANGED <<fetched, dao, sendFails, status, roomId, userId>>

\* a socket whose send() throws from now on
SendFailure(c) ==
  /\ status[c] = "open" /\ ~Fails(c)
  /\ sendFails' = sendFails \cup {c}
  /\ sent' = NoFrames
  /\ patched' = NoPatch
  /\ ev' = Event("sendFailure", c, None, None, NoOutcome, FALSE)
  /\ UNCHANGED <<fetched, dao, status, roomId, userId, tasks>>

\* ChatService.clearRoom(roomId), called by whoever holds the service
clearRoom(r) ==
  /\ store' = clear(store, r)
  /\ sent' = NoFrames
  /\ patched' = NoPatch
  /\ ev' = Event("clearRoom", None, None, r, NoOutcome, FALSE)
  /\ UNCHANGED <<fetched, nextId, sendFails, status, roomId, userId, tasks>>

\* ChatService.persistMessage(message) -> MessageDAO.save(message), called
\* with a message for room r by whoever holds the service
persist(r) ==
  /\ nextId <= MaxMsgs
  /\ store' = persistMessage(store, Msg(nextId, r, "anonymous", "hi"))
  /\ nextId' = nextId + 1
  /\ sent' = NoFrames
  /\ patched' = NoPatch
  /\ ev' = Event("persist", None, None, r, NoOutcome, FALSE)
  /\ UNCHANGED <<fetched, sendFails, status, roomId, userId, tasks>>

\* ChatService.getRecent(roomId, limit) -> MessageDAO.getLast(roomId, limit)
GetLast(r, limit) ==
  /\ fetched' = [roomId |-> r, limit |-> limit, list |-> getLast(store, r, limit)]
  /\ sent' = NoFrames
  /\ patched' = NoPatch
  /\ ev' = Event("getLast", None, None, r, NoOutcome, FALSE)
  /\ UNCHANGED <<dao, sendFails, status, roomId, userId, tasks>>

\* server.ts ws.on("close"): the socket leaves wss.clients; the handler logs
Close(c) ==
  /\ status[c] = "open"
  /\ status' = [status EXCEPT ![c] = "closed"]
  /\ sent' = NoFrames
  /\ patched' = NoPatch
  /\ ev' = Event("close", c, None, None, NoOutcome, FALSE)
  /\ UNCHANGED <<fetched, dao, sendFails, roomId, userId, tasks>>

\* ------------------------------------------------------- specifications
\* Every segment that handles a socket event or resumes a handler, for the
\* sockets `conns` connecting with a ?uid of `uids` and sending `frames`.
Admission(conns, uids, frames) ==
  \/ \E c \in conns, uid \in uids : Connect(c, uid)
  \/ \E c \in conns, raw \in frames : Message(c, raw)
  \/ \E t \in BagToSet(tasks) : \E o \in FetchOutcomes(t.roomId) : JoinMeeting(t, o)
  \/ \E t \in BagToSet(tasks) : JoinRecent(t)
  \/ \E t \in BagToSet(tasks), o \in PatchOutcomes : JoinDone(t, o)
\* the same where sockets also send leave envelopes
Handling(conns, uids, frames) ==
  \/ Admission(conns, uids, frames)
  \/ \E t \in BagToSet(tasks), o \in PatchOutcomes : LeaveDone(t, o)

J1 == "{\"action\":\"join\",\"payload\":{\"roomId\":\"r1\"}}"
J2 == "{\"action\":\"join\",\"payload\":{\"roomId\":\"r2\"}}"
JU == "{\"action\":\"join\",\"payload\":{\"roomId\":\"r1\",\"userId\":\"u2\"}}"
L  == "{\"action\":\"leave\"}"

\* Admission and leave in one room: three sockets without ?uid join and
\* leave r1 (maxParticipants 2) and close at any time.
Next == Handling(Conns, {None}, {J1, L}) \/ \E c \in Conns : Close(c)
Spec == Init /\ [][Next]_vars

\* The same with the scheduling Node guarantees: a handler waiting for
\* getRecent, whose promise is already settled, is resumed.  The fetches of
\* getMeeting and updateParticipantCount are given no timeout by the code
\* and settle when Backend 1 answers, if it does: no fairness for them.
FairSpec == Spec /\ WF_vars(\E t \in BagToSet(tasks) : JoinRecent(t))

\* Two rooms: two sockets join and leave r1 and r2 and close at any time.
TwoConns == {"c1", "c2"}
NextRooms == Handling(TwoConns, {None}, {J1, J2, L}) \/ \E c \in TwoConns : Close(c)
SpecRooms == Init /\ [][NextRooms]_vars

\* The envelope codec and the dispatch: two sockets, with or without ?uid,
\* send every kind of frame; joins go to r1.
CodecFrames == { raw \in RawFrames \ {J2, JU} :
                   /\ JSONParse(raw).ok => JSONParse(raw).val.t # "object"
                                            \/ JSONParse(raw).val.action \notin
                                                 SignalActions \cup {"chat-message"} }
NextCodec == Handling(TwoConns, {None, "u1"}, CodecFrames)
SpecCodec == Init /\ [][NextCodec]_vars

\* Chat: two sockets join r1, send chat messages (to their own room, or to
\* r2 by the roomId of the payload) and signals without a roomId; the second
\* socket closes at any time.
CH  == "{\"action\":\"chat-message\",\"payload\":{\"text\":\"hi\"}}"
CH2 == "{\"action\":\"chat-message\",\"payload\":{\"roomId\":\"r2\",\"text\":\"yo\",\"senderId\":\"u9\"}}"
CHE == "{\"action\":\"chat-message\",\"payload\":{\"roomId\":\"\",\"text\":\"hm\"}}"
SO  == "{\"action\":\"signal-offer\",\"payload\":{\"sdp\":\"x\"}}"
SA2 == "{\"action\":\"signal-answer\",\"payload\":{\"roomId\":\"r2\",\"sdp\":\"y\",\"from\":\"u9\"}}"
SC  == "{\"action\":\"signal-candidate\"}"
NextChat ==
  \/ Admission(TwoConns, {None}, {J1, CH, CH2, SO, SC})
  \/ \E t \in BagToSet(tasks) : ChatBroadcast(t)
  \/ \E c \in {"c2"} : Close(c)
SpecChat == Init /\ [][NextChat]_vars

\* The store: two sockets join r1 and send chat messages to r1 and r2, and
\* the messages of a room are cleared at any time.
NextStore ==
  \/ Admission(TwoConns, {None}, {J1, CH, CH2})
  \/ \E t \in BagToSet(tasks) : ChatBroadcast(t)
  \/ \E r \in Rooms : clearRoom(r)
SpecStore == Init /\ [][NextStore]_vars

\* Signaling: two sockets, with or without ?uid, join r1 and r2, send
\* signals with and without a roomId in the payload, and close at any time.
NextSignal ==
  \/ Admission(TwoConns, {None, "u1"}, {J1, J2, SO, SA2})
  \/ \E c \in TwoConns : Close(c)
SpecSignal == Init /\ [][NextSignal]_vars

\* Failing sends: two sockets join and leave r1 and send chat messages,
\* and the send() of a socket may start to throw at any time.
NextFail ==
  \/ Handling(TwoConns, {None}, {J1, L, CH})
  \/ \E t \in BagToSet(tasks) : ChatBroadcast(t)
  \/ \E c \in TwoConns : SendFailure(c)
SpecFail == Init /\ [][NextFail]_vars

\* The message store alone: messages are saved for r1 and r2, rooms are
\* cleared, and the last `limit` messages of a room are read, for every
\* limit from 0 to one more than the store can hold.
Limits == 0..(MaxMsgs + 1)
NextDao ==
  \/ \E r \in Rooms : persist(r)
  \/ \E r \in Rooms : clearRoom(r)
  \/ \E r \in Rooms, limit \in Limits : GetLast(r, limit)
SpecDao == Init /\ [][NextDao]_vars

\* Identity: two sockets, with or without ?uid, join r1 with and without a
\* userId in the payload and send signals.
NextIdentity == Admission(TwoConns, {None, "u1"}, {J1, JU, SO})
SpecIdentity == Init /\ [][NextIdentity]_vars

\* Room resolution: the first socket joins r1 and sends chat messages and
\* signals without a roomId, with the roomId r2 and with an empty roomId in
\* the payload, before or after its join; the second socket joins r2 and
\* sends chat messages without a roomId.
NextResolve ==
  \/ \E c \in TwoConns : Connect(c, None)
  \/ \E raw \in {J1, CH, CH2, CHE, SO, SA2} : Message("c1", raw)
  \/ \E raw \in {J2, CH} : Message("c2", raw)
  \/ \E t \in BagToSet(tasks) : \E o \in FetchOutcomes(t.roomId) : JoinMeeting(t, o)
  \/ \E t \in BagToSet(tasks) : JoinRecent(t)
  \/ \E t \in BagToSet(tasks), o \in PatchOutcomes : JoinDone(t, o)
  \/ \E t \in BagToSet(tasks) : ChatBroadcast(t)
SpecResolve == Init /\ [][NextResolve]_vars

\* ------------------------------------------------------------- properties
\* The Room Directory as the specification states it: the open sockets whose
\* room attribute is r.
Members(r) == {c \in Conns : status[c] = "open" /\ roomId[c] = r}
countIn(r) == Cardinality(Members(r))
MembersAfter(r) == {c \in Conns : status'[c] = "open" /\ roomId'[c] = r}
countInAfter(r) == Cardinality(MembersAfter(r))

\* frames of one action tag among those sent to d in a segment
Got(out, d, action) == {i \in 1..Len(out[d]) : out[d][i].action = action}
Active(o) == o.kind = "data" /\ o.success /\ o.hasMeeting /\ o.meeting.isActive

\* C1: whatever the interleaving of the join handlers, the open sockets
\* registered in a room never outnumber the maxParticipants of its meeting.
C1_RaceClosure == \A r \in Rooms : countIn(r) <= MaxOf(r)

\* C1 witness: a join has just filled r1 while the join of another socket,
\* started before this one's lookup returned, still waits for its own lookup.
C1_RaceWitness ==
  /\ ev.op = "joinMeeting" /\ ev.room = "r1"
  /\ Got(sent, ev.conn, "joined") # {}
  /\ countIn("r1") = MaxOf("r1")
  /\ \E t \in BagToSet(tasks) :
        t.kind = "join" /\ t.pc = "getMeeting" /\ t.roomId = "r1" /\ t.conn # ev.conn

\* C2: a join resumed with an active meeting while the room already holds
\* maxParticipants open sockets is answered with one MEETING_FULL join-error
\* carrying the observed count and the maximum; nobody else is sent anything,
\* no room attribute changes and the count of the room stays the same.
C2_MeetingFull ==
  [][ (ev'.op = "joinMeeting" /\ Active(ev'.outcome)
         /\ countIn(ev'.room) >= ev'.outcome.meeting.maxParticipants)
      => /\ sent' = Send(NoFrames, ev'.conn,
                         MeetingFull(countIn(ev'.room),
                                     ev'.outcome.meeting.maxParticipants))
         /\ roomId' = roomId
         /\ countInAfter(ev'.room) = countIn(ev'.room) ]_vars

\* C2 witness: r1 (maxParticipants 2) holds two sockets and a third one has
\* just been refused with current = max = 2.
C2_FullWitness ==
  /\ ev.op = "joinMeeting" /\ ev.room = "r1"
  /\ sent[ev.conn] = <<MeetingFull(2, 2)>>
  /\ countIn("r1") = 2
  /\ ev.conn \notin Members("r1")

\* C3: a join answered with `joined` on an open socket raises the count of
\* the room by exactly one, and the user-joined notice goes to exactly the
\* sockets that were members before the join, never to the joiner.
C3_JoinAddsOne ==
  [][ (ev'.op = "joinMeeting" /\ status[ev'.conn] = "open"
         /\ Got(sent', ev'.conn, "joined") # {})
      => /\ countInAfter(ev'.room) = countIn(ev'.room) + 1
         /\ \A d \in Conns :
              Got(sent', d, "user-joined") # {} <=> d \in Members(ev'.room)
         /\ Got(sent', ev'.conn, "user-joined") = {} ]_vars

\* C4: the segment that completes an explicit leave started in room R leaves
\* the socket without a room, and takes exactly one off the count of R when
\* R was still counting the socket (no room's count changes otherwise);
\* no count is ever negative.
C4_LeaveTakesOne ==
  /\ [](\A r \in Rooms : countIn(r) >= 0)
  /\ [][ ev'.op = "leaveDone"
         => /\ roomId'[ev'.conn] = None
            /\ \A r \in Rooms :
                 countInAfter(r) =
                   IF ev'.conn \in Members(r) THEN countIn(r) - 1 ELSE countIn(r) ]_vars

\* C4 witness: a leave started in r1 has completed on an open socket and one
\* other member remains.
C4_LeftWitness ==
  /\ ev.op = "leaveDone" /\ ev.room = "r1"
  /\ status[ev.conn] = "open" /\ roomId[ev.conn] = None
  /\ sent[ev.conn] = <<Left>>
  /\ countIn("r1") = 1

\* C5: when the transport of a socket registered in a room closes, the close
\* event runs the leave procedure: every remaining member is sent a
\* user-left notice and the count of the room is reported to Backend 1.
C5_DisconnectRunsLeave ==
  [][ (ev'.op = "close" /\ roomId[ev'.conn] \in Rooms)
      => /\ \A d \in Members(roomId[ev'.conn]) \ {ev'.conn} :
              Got(sent', d, "user-left") # {}
         /\ patched'.roomId = roomId[ev'.conn] ]_vars

\* C6: a leave envelope of a socket that has already left (its room is
\* cleared, or an earlier leave of it is still waiting for Backend 1) sends
\* no second user-left notice and is answered without an error.
C6_LeaveIdempotent ==
  [][ (ev'.op = "message" /\ ev'.raw = L
         /\ (\/ roomId[ev'.conn] = None
             \/ \E t \in BagToSet(tasks) : t.kind = "leave" /\ t.conn = ev'.conn))
      => /\ \A d \in Conns : Got(sent', d, "user-left") = {}
         /\ Got(sent', ev'.conn, "error") = {}
         /\ ~ev'.threw ]_vars

\* frames by what the client put on the wire
Unparsable     == {"{oops"}
Unrecognized   == {"null", "42", "{}", "{\"action\":\"dance\"}"}
JoinWithoutRoom ==
  {"{\"action\":\"join\"}", "{\"action\":\"join\",\"payload\":{\"roomId\":\"\"}}"}

\* C7: a frame that is not JSON is answered with exactly one `error` frame
\* `invalid-json`, sent to the sender only; no socket's room, identity or
\* readiness changes, no handler is started, nothing is reported and
\* nothing is stored.
C7_InvalidJson ==
  [][ (ev'.op = "message" /\ ev'.raw \in Unparsable)
      => /\ sent' = Send(NoFrames, ev'.conn, ErrorFrame("invalid-json"))
         /\ ~ev'.threw
         /\ roomId' = roomId /\ userId' = userId /\ status' = status
         /\ tasks' = tasks /\ patched' = NoPatch /\ store' = store ]_vars

\* C7 witness: a socket with an identity, registered in r1, has just been
\* answered invalid-json.
C7_InvalidJsonWitness ==
  /\ ev.op = "message" /\ ev.raw \in Unparsable
  /\ roomId[ev.conn] = "r1" /\ userId[ev.conn] = "u1"
  /\ sent[ev.conn] = <<ErrorFrame("invalid-json")>>

\* C8: a frame that is JSON but carries no recognized action (unknown tag,
\* no action, or a value that is no object, such as null) never makes the
\* handler throw and is answered with exactly one `error` frame
\* `unknown-action`; room and identity stay as they were.
C8_UnknownAction ==
  [][ (ev'.op = "message" /\ ev'.raw \in Unrecognized)
      => /\ ~ev'.threw
         /\ sent' = Send(NoFrames, ev'.conn, ErrorFrame("unknown-action"))
         /\ roomId' = roomId /\ userId' = userId ]_vars

\* C9: a join without a roomId (no payload, or an empty roomId) is answered
\* with code ROOMID_REQUIRED; Backend 1 is not queried (no handler is
\* suspended on a lookup), nobody else is sent anything and every socket's
\* room stays as it was.
C9_RoomIdRequired ==
  [][ (ev'.op = "message" /\ ev'.raw \in JoinWithoutRoom)
      => /\ sent' = Send(NoFrames, ev'.conn, RoomIdRequired)
         /\ tasks' = tasks
         /\ roomId' = roomId /\ userId' = userId ]_vars

\* C9 witness: a member of r1 has just been refused a join without roomId
\* and is still a member of r1.
C9_RoomIdRequiredWitness ==
  /\ ev.op = "message"
  /\ ev.raw = "{\"action\":\"join\",\"payload\":{\"roomId\":\"\"}}"
  /\ ev.conn \in Members("r1")
  /\ sent[ev.conn] = <<RoomIdRequired>>
  /\ tasks = EmptyBag

\* C10: a join whose lookup failed entirely (fetch or response.json() threw)
\* is answered with the join-error SERVER_ERROR and registers nobody.
C10_LookupFailure ==
  [][ (ev'.op = "joinMeeting" /\ ev'.outcome.kind \in {"network-error", "bad-json"})
      => /\ sent' = Send(NoFrames, ev'.conn, JoinError("SERVER_ERROR"))
         /\ roomId' = roomId ]_vars

\* C11: a join whose lookup answers "not found" (a body with success false)
\* is answered with one join-error MEETING_NOT_FOUND, and one whose meeting
\* is found with isActive false with one join-error MEETING_INACTIVE; in
\* both cases, whatever the count of the room, nobody else is sent anything
\* (no user-joined) and no socket's room or identity changes.
NotFound(o) == o.kind = "data" /\ ~o.success
Inactive(o) == o.kind = "data" /\ o.success /\ o.hasMeeting /\ ~o.meeting.isActive
C11_NotFoundInactive ==
  [][ (ev'.op = "joinMeeting" /\ (NotFound(ev'.outcome) \/ Inactive(ev'.outcome)))
      => /\ sent' = Send(NoFrames, ev'.conn,
                         JoinError(IF NotFound(ev'.outcome)
                                   THEN "MEETING_NOT_FOUND" ELSE "MEETING_INACTIVE"))
         /\ roomId' = roomId /\ userId' = userId
         /\ \A r \in Rooms : countInAfter(r) = countIn(r) ]_vars

\* C11 witness: r1 is full, and a third socket asking for r1 has just been
\* answered MEETING_INACTIVE (not MEETING_FULL) and is in no room.
C11_InactiveWitness ==
  /\ ev.op = "joinMeeting" /\ ev.room = "r1" /\ Inactive(ev.outcome)
  /\ sent[ev.conn] = <<JoinError("MEETING_INACTIVE")>>
  /\ countIn("r1") = MaxOf("r1")
  /\ roomId[ev.conn] = None

\* chat frames by what the client put on the wire: the text, and the room
\* the envelope of socket c resolves to
ChatFrames == {CH, CH2}
ChatText(raw) == IF raw = CH THEN "hi" ELSE "yo"
ChatRoom(raw, c) == IF raw = CH2 THEN "r2" ELSE roomId[c]
ChatTasks == {t \in BagToSet(tasks) : t.kind = "chat"}

\* C12: a chat-message envelope with text t that resolves to room R appends
\* exactly one message to the store, with content t and roomId R, at the end
\* of the list of R, and leaves every other list as it was; the segment that
\* broadcasts a stored message sends one chat-message frame carrying it to
\* every open socket registered in its room at that time (the sender among
\* them when it is a member) and to no other socket, and it does so once;
\* chat-message frames are sent by no other segment.
C12_ChatStoredAndBroadcast ==
  /\ [][ (ev'.op = "message" /\ ev'.raw \in ChatFrames
            /\ ChatRoom(ev'.raw, ev'.conn) \in Rooms)
         => LET R == ChatRoom(ev'.raw, ev'.conn) IN
            /\ Len(store'[R]) = Len(store[R]) + 1
            /\ SubSeq(store'[R], 1, Len(store[R])) = store[R]
            /\ store'[R][Len(store'[R])].content = ChatText(ev'.raw)
            /\ store'[R][Len(store'[R])].roomId = R
            /\ \A r \in Rooms \ {R} : store'[r] = store[r]
            /\ \E t \in BagToSet(tasks') :
                 /\ t.kind = "chat" /\ t.msg = store'[R][Len(store'[R])]
                 /\ tasks' = tasks (+) SetToBag({t}) ]_vars
  /\ [][ ev'.op = "chatBroadcast"
         => \E t \in ChatTasks :
              /\ tasks' = tasks (-) SetToBag({t})
              /\ \A d \in Conns :
                   sent'[d] = IF d \in Members(t.msg.roomId)
                              THEN <<ChatMessage(t.msg)>> ELSE <<>> ]_vars
  /\ [][ (\E d \in Conns : Got(sent', d, "chat-message") # {})
         => ev'.op = "chatBroadcast" ]_vars

\* C12 witness: a member of r1 sent "hi"; the message is the second one in
\* the store of r1, and the sender and the other member of r1 have both
\* just been sent the chat-message frame carrying it.
C12_ChatWitness ==
  /\ ev.op = "chatBroadcast" /\ Members("r1") = {"c1", "c2"}
  /\ Len(store["r1"]) = 2
  /\ store["r1"][2].content = "hi"
  /\ sent[ev.conn] = <<ChatMessage(store["r1"][2])>>
  /\ \A d \in Members("r1") : sent[d] = sent[ev.conn]

\* chat and signaling frames whose payload names no room
NoRoomInPayload == {CH, SO, SC}

\* C13: a chat-message or signaling envelope whose payload names no room,
\* from a socket that has no room, is answered with exactly one `error`
\* frame `no-room`, sent to the sender only; nothing is stored, no handler is
\* left waiting to broadcast, and no socket's room, identity or readiness
\* changes.
C13_NoRoom ==
  [][ (ev'.op = "message" /\ ev'.raw \in NoRoomInPayload
         /\ roomId[ev'.conn] = None)
      => /\ sent' = Send(NoFrames, ev'.conn, ErrorFrame("no-room"))
         /\ ~ev'.threw
         /\ store' = store /\ tasks' = tasks
         /\ roomId' = roomId /\ userId' = userId /\ status' = status ]_vars

\* C13 witness: a socket in no room has just been answered no-room to a
\* chat message while the other socket is a member of r1 and was sent
\* nothing.
C13_NoRoomWitness ==
  /\ ev.op = "message" /\ ev.raw = CH /\ roomId[ev.conn] = None
  /\ sent[ev.conn] = <<ErrorFrame("no-room")>>
  /\ \E d \in Members("r1") : d # ev.conn /\ sent[d] = <<>>
  /\ \A r \in Rooms : store[r] = <<>>

\* signaling frames by what the client put on the wire
SignalFrames == {SO, SA2}
SignalTag(raw)  == IF raw = SO THEN "signal-offer" ELSE "signal-answer"
SignalSdp(raw)  == IF raw = SO THEN "x" ELSE "y"
SignalRoomField(raw) == IF raw = SO THEN None ELSE "r2"
SignalRoom(raw, c) == IF raw = SO THEN roomId[c] ELSE "r2"

\* C14: a signaling envelope that resolves to room R is relayed in the same
\* segment: every open socket registered in R other than the sender is sent
\* exactly one frame with the same action tag, the sdp and roomId fields as
\* the sender supplied them, and `from` set to the identity of the sender
\* socket; the sender and every socket outside R are sent nothing; nothing
\* is stored, no handler is suspended and no room attribute changes.
C14_SignalRelay ==
  [][ (ev'.op = "message" /\ ev'.raw \in SignalFrames
         /\ SignalRoom(ev'.raw, ev'.conn) \in Rooms)
      => /\ \A d \in Conns :
              IF d \in Members(SignalRoom(ev'.raw, ev'.conn)) \ {ev'.conn}
              THEN /\ Len(sent'[d]) = 1
                   /\ sent'[d][1].action = SignalTag(ev'.raw)
                   /\ sent'[d][1].data.sdp = SignalSdp(ev'.raw)
                   /\ sent'[d][1].data.roomId = SignalRoomField(ev'.raw)
                   /\ sent'[d][1].data.from = userId[ev'.conn]
              ELSE sent'[d] = <<>>
         /\ ~ev'.threw
         /\ store' = store /\ tasks' = tasks /\ roomId' = roomId ]_vars

\* C14 witness: socket u1, a member of r1, sent a signal-answer naming r2
\* and a `from` of its own making; the member of r2 has just been sent the
\* relay with from = u1, and the sender nothing.
C14_RelayWitness ==
  /\ ev.op = "message" /\ ev.raw = SA2
  /\ ev.conn \in Members("r1") /\ userId[ev.conn] = "u1"
  /\ sent[ev.conn] = <<>>
  /\ \E d \in Members("r2") :
        /\ Len(sent[d]) = 1
        /\ sent[d][1].action = "signal-answer"
        /\ sent[d][1].data.from = "u1"
        /\ sent[d][1].data.sdp = "y"

\* C15: a send that throws for one recipient of a broadcast neither keeps
\* the frame from the other open members of the room nor surfaces in the
\* operation that broadcast: the chat broadcast of a socket whose own send
\* works reaches every member whose send works and does not throw; a leave
\* of such a socket notifies every other such member, does not throw and
\* goes on to report the count; a join that registers such a socket answers
\* it `joined` and no join-error.
C15_SendFailureIsolated ==
  /\ [][ (ev'.op = "chatBroadcast" /\ ev'.conn \notin sendFails)
         => /\ ~ev'.threw
            /\ \A d \in Members(ev'.room) \ sendFails :
                 Got(sent', d, "chat-message") # {} ]_vars
  /\ [][ (ev'.op = "message" /\ ev'.raw = L /\ roomId[ev'.conn] \in Rooms
            /\ ev'.conn \notin sendFails)
         => /\ ~ev'.threw
            /\ \A d \in Members(roomId[ev'.conn]) \ ({ev'.conn} \cup sendFails) :
                 Got(sent', d, "user-left") # {}
            /\ patched'.roomId = roomId[ev'.conn] ]_vars
  /\ [][ (ev'.op = "joinMeeting" /\ ev'.conn \notin sendFails
            /\ roomId[ev'.conn] = None /\ roomId'[ev'.conn] \in Rooms)
         => /\ Got(sent', ev'.conn, "joined") # {}
            /\ Got(sent', ev'.conn, "join-error") = {} ]_vars

\* the join handlers past admission
Admitted == {t \in BagToSet(tasks) : t.kind = "join" /\ t.pc # "getMeeting"}
AdmittedAfter == {t \in BagToSet(tasks') : t.kind = "join" /\ t.pc # "getMeeting"}

\* C16: when the report of the count after a join fails (the PATCH is
\* answered with a non-OK status, or the fetch throws), the segment that
\* resumes the join sends nothing to anybody (no join-error), does not throw
\* and changes no socket's room; and a join handler gets as far as the
\* report only after it has sent `joined` to its socket.
C16_ReportFailureSilent ==
  /\ [][ (ev'.op = "joinDone"
            /\ ev'.outcome.kind \in {"patch-not-ok", "patch-network-error"})
         => /\ sent' = NoFrames
            /\ ~ev'.threw
            /\ roomId' = roomId /\ userId' = userId ]_vars
  /\ [][ \A t \in AdmittedAfter :
           (t.pc = "getRecent" /\ t \notin Admitted)
           => (ev'.op = "joinMeeting" /\ ev'.conn = t.conn
                 /\ Got(sent', t.conn, "joined") # {}) ]_vars
  /\ [][ \A t \in AdmittedAfter :
           (t.pc = "updateCount" /\ t \notin Admitted)
           => \E u \in Admitted : u.pc = "getRecent" /\ u.conn = t.conn ]_vars

\* C16 witness: the PATCH of a join has just failed with a network error;
\* the joiner is still a member of the room it joined and was sent nothing.
C16_ReportFailureWitness ==
  /\ ev.op = "joinDone" /\ ev.outcome.kind = "patch-network-error"
  /\ ev.conn \in Members(ev.room)
  /\ sent = NoFrames

\* C17: every join handler waiting for the lookup of its meeting is
\* eventually answered, unless its socket closes first: the socket is sent
\* `joined` or a join-error.
JoinPending(c) ==
  \E t \in BagToSet(tasks) : t.kind = "join" /\ t.pc = "getMeeting" /\ t.conn = c
JoinAnswered(c) ==
  Got(sent, c, "joined") # {} \/ Got(sent, c, "join-error") # {}
C17_JoinEventuallyAnswered ==
  \A c \in Conns : JoinPending(c) ~> (JoinAnswered(c) \/ status[c] = "closed")

\* C18: the envelopes of one socket are handled one after the other: while
\* a handler of an earlier envelope of a socket is still suspended, a later
\* envelope of that socket has no effect (no frame is sent, nothing is
\* stored or reported, no room changes).
C18_PerConnectionOrder ==
  [][ (ev'.op = "message"
         /\ \E t \in BagToSet(tasks) : t.conn = ev'.conn)
      => /\ sent' = NoFrames
         /\ store' = store /\ patched' = NoPatch
         /\ roomId' = roomId ]_vars

\* the user-left frames among those sent to d
UserLeftFrames(out, d) == {out[d][i] : i \in Got(out, d, "user-left")}

\* C19: every user-left notice sent when socket c leaves room R carries as
\* participantCount the number of open sockets registered in R other than
\* c, which is never negative; user-left notices are sent only by the
\* segment that takes up a leave envelope; and the notice handleDisconnect
\* builds for a closed socket that still names a room carries the number of
\* open sockets registered in that room.
C19_UserLeftCount ==
  /\ [][ \A d \in Conns : \A f \in UserLeftFrames(sent', d) :
           /\ ev'.op = "message" /\ ev'.raw = L /\ roomId[ev'.conn] \in Rooms
           /\ d \in Members(roomId[ev'.conn]) \ {ev'.conn}
           /\ f.participantCount =
                Cardinality(Members(roomId[ev'.conn]) \ {ev'.conn})
           /\ f.participantCount >= 0 ]_vars
  /\ [](\A c \in Conns :
          (status[c] = "closed" /\ roomId[c] \in Rooms)
          => \A d \in Conns : \A f \in UserLeftFrames(DisconnectNotice(c), d) :
               f.participantCount = Cardinality(Members(roomId[c]) \ {c}))

\* C19 witness: one of the two members of r1 has sent a leave; the other
\* has just been sent a user-left notice with participantCount 1.
C19_UserLeftWitness ==
  /\ ev.op = "message" /\ ev.raw = L
  /\ Members("r1") = {ev.conn} \cup {d \in Conns : sent[d] # <<>>}
  /\ countIn("r1") = 2
  /\ \E d \in Members("r1") \ {ev.conn} : sent[d] = <<UserLeft(None, 1)>>

\* the chat-message frames among those sent to d
ChatMessageFrames(out, d) == {out[d][i] : i \in Got(out, d, "chat-message")}
ChatTasksAfter == {t \in BagToSet(tasks') : t.kind = "chat"}

\* C20: a chat-message frame is sent only by the segment that resumes a
\* chat handler after its save, and carries the message of that handler; a
\* chat handler comes to wait for its save only in the segment that put its
\* message at the end of the list of the message's room; and the list of a
\* room changes only by one message of that room being appended to it, or
\* by clearRoom of that very room emptying it.
C20_PersistThenBroadcast ==
  /\ [][ \A d \in Conns : \A f \in ChatMessageFrames(sent', d) :
           /\ ev'.op = "chatBroadcast"
           /\ \E t \in ChatTasks :
                f.message = t.msg /\ tasks' = tasks (-) SetToBag({t}) ]_vars
  /\ [][ \A t \in ChatTasksAfter \ ChatTasks :
           /\ ev'.op = "message"
           /\ store'[t.msg.roomId] = Append(store[t.msg.roomId], t.msg) ]_vars
  /\ [][ \A r \in Rooms :
           \/ store'[r] = store[r]
           \/ /\ ev'.op = "message"
              /\ Len(store'[r]) = Len(store[r]) + 1
              /\ SubSeq(store'[r], 1, Len(store[r])) = store[r]
              /\ store'[r][Len(store'[r])].roomId = r
           \/ /\ ev'.op = "clearRoom" /\ ev'.room = r
              /\ store'[r] = <<>> ]_vars

\* C20 witness: r1 has just been cleared while a message saved for r1 still
\* waits to be broadcast, and the message saved for r2 is still in place.
C20_ClearWitness ==
  /\ ev.op = "clearRoom" /\ ev.room = "r1"
  /\ store["r1"] = <<>> /\ Len(store["r2"]) = 1
  /\ \E t \in ChatTasks : t.msg.roomId = "r1"

\* the recent-messages frames among those sent to d
RecentFrames(out, d) == {out[d][i] : i \in Got(out, d, "recent-messages")}
\* the messages of list are messages of room r, in the order they were saved
SavedFor(list, r) ==
  /\ \A i \in 1..Len(list) : list[i].roomId = r
  /\ \A i, j \in 1..Len(list) : i < j => list[i].id < list[j].id

\* C21: a join answered with `joined` for room R leaves one more handler
\* waiting for the recent messages, holding the list of R as the store has it
\* at that moment; the segment that resumes such a handler sends its socket
\* exactly one recent-messages frame carrying that list, which holds only
\* messages saved for R, oldest first, and sends nothing to anybody else;
\* recent-messages frames are sent by no other segment.
C21_RecentToJoinerOnly ==
  /\ [][ (ev'.op = "joinMeeting" /\ Got(sent', ev'.conn, "joined") # {})
         => \E t \in BagToSet(tasks') :
              /\ t.kind = "join" /\ t.pc = "getRecent"
              /\ t.conn = ev'.conn /\ t.roomId = ev'.room
              /\ t.recent = store[ev'.room]
              /\ CopiesIn(t, tasks') = CopiesIn(t, tasks) + 1 ]_vars
  /\ [][ ev'.op = "joinRecent"
         => \E t \in BagToSet(tasks) :
              /\ t.kind = "join" /\ t.pc = "getRecent" /\ t.conn = ev'.conn
              /\ CopiesIn(t, tasks') = CopiesIn(t, tasks) - 1
              /\ sent' = Send(NoFrames, t.conn, RecentMessages(t.recent))
              /\ SavedFor(t.recent, t.roomId) ]_vars
  /\ [][ (\E d \in Conns : RecentFrames(sent', d) # {})
         => ev'.op = "joinRecent" ]_vars
  /\ [][ \A t \in BagToSet(tasks') :
           (t.kind = "join" /\ t.pc = "getRecent"
              /\ CopiesIn(t, tasks') > CopiesIn(t, tasks))
           => (ev'.op = "joinMeeting" /\ ev'.conn = t.conn
                 /\ Got(sent', t.conn, "joined") # {}) ]_vars

\* C21 witness: two messages were saved for r1; a socket that joined r1
\* afterwards has just been sent the two of them, oldest first, and the
\* other socket nothing.
C21_RecentWitness ==
  /\ ev.op = "joinRecent" /\ ev.room = "r1"
  /\ Len(sent[ev.conn]) = 1
  /\ sent[ev.conn][1].action = "recent-messages"
  /\ Len(sent[ev.conn][1].messages) = 2
  /\ sent[ev.conn][1].messages[1].id = 1
  /\ sent[ev.conn][1].messages[2].id = 2
  /\ \A d \in Conns \ {ev.conn} : sent[d] = <<>>

\* the k most recently saved messages of a list, oldest first
Min(a, b) == IF a < b THEN a ELSE b
MostRecent(list, k) == SubSeq(list, Len(list) - k + 1, Len(list))

\* C22: getLast(roomId, limit) with limit >= 0 returns exactly the
\* min(limit, n) most recently saved messages of the room, in save order,
\* n being the number of messages saved for it since its last clear: never
\* more than `limit` messages, and none for limit = 0 or an empty room.
C22_GetLastAtMostLimit ==
  [][ ev'.op = "getLast"
      => LET list == store[fetched'.roomId]
             k == Min(fetched'.limit, Len(list)) IN
         /\ fetched'.list = MostRecent(list, k)
         /\ Len(fetched'.list) <= fetched'.limit ]_vars

\* C23: the identity of a socket is set once: when a socket has an identity
\* (from the ?uid of its connection or from an earlier join), no later
\* segment gives it another one.
C23_IdentitySetOnce ==
  [][ \A c \in Conns : userId[c] # None => userId'[c] = userId[c] ]_vars

\* C24: a join has one outcome: no socket is sent both `joined` and a
\* join-error by the segment that decides a join, a join handler that has
\* sent `joined` sends no join-error later, and the segment that answers a
\* join with a join-error changes no socket's room and sends no user-joined
\* notice.
C24_JoinOneOutcome ==
  /\ [][ \A c \in Conns :
           Got(sent', c, "joined") = {} \/ Got(sent', c, "join-error") = {} ]_vars
  /\ [][ ev'.op \in {"joinRecent", "joinDone"}
         => \A c \in Conns : Got(sent', c, "join-error") = {} ]_vars
  /\ [][ (ev'.op = "joinMeeting" /\ Got(sent', ev'.conn, "join-error") # {})
         => /\ roomId' = roomId
            /\ \A d \in Conns : Got(sent', d, "user-joined") = {} ]_vars

\* the sockets whose explicit leave of room r has sent its user-left notice
\* and still waits for the report of the count
Leaving(r) ==
  {c \in Conns : \E t \in BagToSet(tasks) :
                   t.kind = "leave" /\ t.conn = c /\ t.roomId = r}
BroadcastTags == {"user-joined", "user-left", "chat-message"} \cup SignalActions

\* C25: from the segment that broadcast its user-left notice on, a socket
\* leaving room R is no member of R, even while its leave handler waits for
\* Backend 1: no later broadcast to R reaches it, and the capacity test of
\* a join to R handled meanwhile does not count it (a join is refused as
\* full only if the members of R without the leaving sockets fill R).
C25_LeftOnNotice ==
  /\ [][ \A r \in Rooms : \A c \in Leaving(r) : \A tag \in BroadcastTags :
           Got(sent', c, tag) = {} ]_vars
  /\ [][ (ev'.op = "joinMeeting" /\ Active(ev'.outcome)
            /\ Got(sent', ev'.conn, "join-error") # {})
         => Cardinality(Members(ev'.room) \ Leaving(ev'.room))
              >= ev'.outcome.meeting.maxParticipants ]_vars

\* C26: a socket is a member of at most one room, and a change of room is
\* announced: when a socket registered in room A is admitted to another
\* room B, it is no longer a member of A and every remaining member of A is
\* sent a user-left notice whose participantCount is the number of
\* members A is left with.
C26_RoomChangeAnnounced ==
  /\ [](\A c \in Conns : Cardinality({r \in Rooms : c \in Members(r)}) <= 1)
  /\ [][ (ev'.op = "joinMeeting" /\ status[ev'.conn] = "open"
            /\ roomId[ev'.conn] \in Rooms
            /\ roomId'[ev'.conn] \in Rooms \ {roomId[ev'.conn]})
         => LET A == roomId[ev'.conn] IN
            /\ ev'.conn \notin MembersAfter(A)
            /\ \A d \in Members(A) \ {ev'.conn} :
                 \E f \in UserLeftFrames(sent', d) :
                   f.participantCount = countInAfter(A) ]_vars

\* the room an envelope resolves to: the roomId of its payload where the
\* client supplied one, the room of the socket otherwise
Supplied(raw) == IF raw \in {CH2, SA2} THEN "r2" ELSE IF raw = CHE THEN Empty ELSE None
Target(raw, c) == IF Supplied(raw) # None THEN Supplied(raw) ELSE roomId[c]

\* C27: a chat-message envelope whose target room is R (the roomId of the
\* payload if supplied, else the room of the socket) stores its message
\* under R and under no other room and leaves a handler to broadcast it to
\* R, and one whose target is no room (an empty roomId supplied, or none
\* supplied by a socket without a room) is answered no-room and stores
\* nothing; the broadcast of a message stored under R reaches the open sockets
\* registered in R and no socket outside R, the sender included; a signal
\* whose target is R reaches the members of R other than the sender and
\* nobody else; and none of these segments changes any socket's room, so a
\* socket registered in r1, or in no room, that names r2 writes to r2 and
\* stays where it was.
C27_RoomResolution ==
  /\ [][ (ev'.op = "message" /\ ev'.raw \in {CH, CH2, CHE}
            /\ Target(ev'.raw, ev'.conn) \notin Rooms)
         => /\ sent' = Send(NoFrames, ev'.conn, ErrorFrame("no-room"))
            /\ store' = store /\ tasks' = tasks /\ roomId' = roomId ]_vars
  /\ [][ (ev'.op = "message" /\ ev'.raw \in {CH, CH2, CHE}
            /\ Target(ev'.raw, ev'.conn) \in Rooms)
         => LET R == Target(ev'.raw, ev'.conn) IN
            /\ Len(store'[R]) = Len(store[R]) + 1
            /\ store'[R][Len(store'[R])].roomId = R
            /\ \A r \in Rooms \ {R} : store'[r] = store[r]
            /\ \E t \in ChatTasksAfter :
                 /\ t.roomId = R /\ t.conn = ev'.conn
                 /\ t.msg = store'[R][Len(store'[R])]
                 /\ CopiesIn(t, tasks') = CopiesIn(t, tasks) + 1
            /\ roomId' = roomId ]_vars
  /\ [][ ev'.op = "chatBroadcast"
         => /\ \E t \in ChatTasks :
                 /\ t.conn = ev'.conn /\ t.roomId = ev'.room
                 /\ t.msg.roomId = ev'.room
                 /\ CopiesIn(t, tasks') = CopiesIn(t, tasks) - 1
                 /\ \A d \in Members(ev'.room) : sent'[d] = <<ChatMessage(t.msg)>>
            /\ \A d \in Conns \ Members(ev'.room) : sent'[d] = <<>>
            /\ roomId' = roomId ]_vars
  /\ [][ (ev'.op = "message" /\ ev'.raw \in SignalFrames
            /\ Target(ev'.raw, ev'.conn) \in Rooms)
         => /\ \A d \in Conns :
                 Len(sent'[d]) =
                   IF d \in Members(Target(ev'.raw, ev'.conn)) \ {ev'.conn}
                   THEN 1 ELSE 0
            /\ roomId' = roomId ]_vars

\* C27 witness: the socket registered in r1 sent a chat message naming r2;
\* the message is stored under r2 and not under r1, the member of r2 has
\* just been sent it, and the sender, still in r1, was sent nothing.
C27_CrossRoomWitness ==
  /\ ev.op = "chatBroadcast" /\ ev.room = "r2"
  /\ ev.conn \in Members("r1")
  /\ sent[ev.conn] = <<>>
  /\ store["r1"] = <<>> /\ Len(store["r2"]) = 1
  /\ store["r2"][1].content = "yo"
  /\ \E d \in Members("r2") : sent[d] = <<ChatMessage(store["r2"][1])>>

====
